---- MODULE Spec2Model ----
(***************************************************************************)
(* Model of the WIQL editor's semantic layer:                              *)
(*   - the operator-compatibility table and the field lookup builder      *)
(*     (TypeErrorChecker.ts, compTypes / getFieldComparisonLookup),        *)
(*   - the type error checker (TypeErrorChecker.check and its helpers),    *)
(*   - the variable completion filter (getStandardVariableSuggestions,    *)
(*     includeVariables, getCurrentVariableSuggestions).                   *)
(* Strings of the program are TLA+ strings; symbol classes (Symbols.X)     *)
(* are named by their class name.  An undefined / null JavaScript value    *)
(* is the string "null".                                                   *)
(***************************************************************************)
EXTENDS Integers, Sequences, FiniteSets, TLC

VARIABLES
    fields,        \* the field metadata snapshot (cachedData/fields)
    cached,        \* whether TypeErrorChecker.fieldLookup holds a value
    fieldLookup,   \* the value of TypeErrorChecker.fieldLookup
    parseResult,   \* the parse result last handed to check
    outcome,       \* what the last call produced (resolved value or rejection)
    ctx,           \* the completion context last handed to the completion filter
    position,      \* the cursor position (monaco.Position.column)
    suggestions,   \* the caller's suggestion list that includeVariables mutates
    before,        \* the suggestion list as it was before the last includeVariables
    rhsValue,      \* the value last handed to checkRhsValue
    rhsExpected,   \* the expected FieldType last handed to checkRhsValue
    called         \* name of the operation that ran last ("none" after construction)

vars == <<fields, cached, fieldLookup, parseResult, outcome, ctx, position,
          suggestions, before, rhsValue, rhsExpected, called>>

(***************************************************************************)
(* Bounds of the model.                                                    *)
(***************************************************************************)
MaxFields == 3      \* longest field metadata list handed to the lookup builder
MaxListLen == 2     \* longest value list of a group-form condition
MaxConditions == 2  \* most conditions in a multi-condition parse result
MaxColumn == 2      \* largest token end column / cursor column offset
MaxSuggestions == 1 \* most suggestions already in the caller's list

null == "null"

(***************************************************************************)
(* FieldType (TFS/WorkItemTracking/Contracts).  MappedTypes are the ten    *)
(* members the checker registers and switches over; "Identity" stands for  *)
(* any other value of the enumeration.                                     *)
(***************************************************************************)
MappedTypes == {"String", "Integer", "DateTime", "PlainText", "Html",
                "TreePath", "History", "Double", "Guid", "Boolean"}
UnmappedTypes == {"Identity"}
FieldTypes == MappedTypes \cup UnmappedTypes

(***************************************************************************)
(* String.prototype.toLocaleLowerCase on the texts the model uses.         *)
(***************************************************************************)
toLocaleLowerCase(s) ==
    CASE s = "Title" -> "title"
      [] s = "System.Title" -> "system.title"
      [] s = "Effort" -> "effort"
      [] s = "EFFORT" -> "effort"
      [] s = "Custom.Effort" -> "custom.effort"
      [] s = "ID" -> "id"
      [] s = "System.Id" -> "system.id"
      [] s = "Created Date" -> "created date"
      [] s = "System.CreatedDate" -> "system.createddate"
      [] s = "Token" -> "token"
      [] s = "Custom.Token" -> "custom.token"
      [] s = "Description" -> "description"
      [] s = "System.Description" -> "system.description"
      [] s = "Notes" -> "notes"
      [] s = "Custom.Notes" -> "custom.notes"
      [] s = "History" -> "history"
      [] s = "System.History" -> "system.history"
      [] s = "Area Path" -> "area path"
      [] s = "System.AreaPath" -> "system.areapath"
      [] s = "Flag" -> "flag"
      [] s = "Custom.Flag" -> "custom.flag"
      [] s = "Link Type" -> "link type"
      [] s = "System.Links.LinkType" -> "system.links.linktype"
      [] s = "Custom.LinkType" -> "custom.linktype"
      [] s = "Links" -> "links"
      [] s = "Unknown" -> "unknown"
      [] s = "@Me" -> "@me"
      [] s = "@Today" -> "@today"
      [] OTHER -> s

(***************************************************************************)
(* compTypes as the four addCompTypes registrations leave it.  Each entry  *)
(* lists the operator classes in registration order.                       *)
(***************************************************************************)
ComparisonOps == <<"Equals", "NotEquals", "GreaterThan", "LessThan", "GreaterOrEq", "LessOrEq">>

addCompTypes(fieldType, literal, group, field) ==
    [fieldType |-> fieldType, field |-> field, group |-> group, literal |-> literal]

\* compTypes with no field comparison registered for the numeric, date and
\* id types (the registration's last argument left empty)
compTypesNoFieldOps(fieldType) ==
    CASE fieldType \in {"Html", "PlainText", "History"} ->
            addCompTypes(fieldType, <<"Contains", "ContainsWords">>, <<>>, <<>>)
      [] fieldType \in {"Double", "Integer", "DateTime", "Guid"} ->
            addCompTypes(fieldType, ComparisonOps \o <<"Ever">>, <<"In">>, <<>>)
      [] fieldType = "String" ->
            addCompTypes(fieldType, ComparisonOps \o <<"Ever", "Contains", "InGroup">>,
                         <<"In">>, ComparisonOps)
      [] fieldType = "Boolean" ->
            addCompTypes(fieldType, <<"Equals", "NotEquals", "Ever">>, <<>>,
                         <<"Equals", "NotEquals">>)
      [] fieldType = "TreePath" ->
            addCompTypes(fieldType, <<"Equals", "NotEquals", "Under">>, <<"In">>, <<>>)

compTypes(fieldType) ==
    CASE fieldType \in {"Html", "PlainText", "History"} ->
            addCompTypes(fieldType, <<"Contains", "ContainsWords">>, <<>>, <<>>)
      [] fieldType \in {"Double", "Integer", "DateTime", "Guid"} ->
            addCompTypes(fieldType, ComparisonOps \o <<"Ever">>, <<"In">>, ComparisonOps)
      [] fieldType = "String" ->
            addCompTypes(fieldType, ComparisonOps \o <<"Ever", "Contains", "InGroup">>,
                         <<"In">>, ComparisonOps)
      [] fieldType = "Boolean" ->
            addCompTypes(fieldType, <<"Equals", "NotEquals", "Ever">>, <<>>,
                         <<"Equals", "NotEquals">>)
      [] fieldType = "TreePath" ->
            addCompTypes(fieldType, <<"Equals", "NotEquals", "Under">>, <<"In">>, <<>>)

(***************************************************************************)
(* getFieldComparisonLookup                                                *)
(***************************************************************************)
LinkTypeReferenceName == "System.Links.LinkType"

\* the link-type entry taken from the String registration
linkTypeComparisonAsString ==
    [fieldType |-> "String", group |-> <<"In">>,
     literal |-> ComparisonOps \o <<"Ever", "Contains", "InGroup">>,
     field |-> ComparisonOps]

\* the entry the link-type branch writes
linkTypeComparison ==
    [fieldType |-> "String", group |-> <<>>,
     literal |-> <<"Equals", "NotEquals">>, field |-> <<>>]

\* fieldComparison without the link-type branch
fieldComparisonNoLinkType(field) == compTypes(field.type)

\* the entry one loop iteration writes for `field`
fieldComparison(field) ==
    IF LinkTypeReferenceName = field.referenceName
    THEN linkTypeComparison
    ELSE compTypes(field.type)

\* one loop iteration: both keys are assigned the same entry
putField(lookup, field) ==
    LET keys == {toLocaleLowerCase(field.name), toLocaleLowerCase(field.referenceName)}
    IN [k \in (DOMAIN lookup) \cup keys |->
            IF k \in keys THEN fieldComparison(field) ELSE lookup[k]]

RECURSIVE lookupAfter(_, _)
lookupAfter(fs, n) ==
    IF n = 0 THEN <<>> ELSE putField(lookupAfter(fs, n - 1), fs[n])

getFieldComparisonLookup(fs) == lookupAfter(fs, Len(fs))

(***************************************************************************)
(* Field metadata the model draws from.                                    *)
(***************************************************************************)
Field(name, referenceName, type) ==
    [name |-> name, referenceName |-> referenceName, type |-> type]

LinkTypeField == Field("Link Type", "System.Links.LinkType", "String")
TitleField == Field("Title", "System.Title", "String")
EffortField == Field("Effort", "Custom.Effort", "Double")
IdField == Field("ID", "System.Id", "Integer")
CreatedField == Field("Created Date", "System.CreatedDate", "DateTime")
TokenField == Field("Token", "Custom.Token", "Guid")
DescriptionField == Field("Description", "System.Description", "Html")
NotesField == Field("Notes", "Custom.Notes", "PlainText")
HistoryField == Field("History", "System.History", "History")
AreaField == Field("Area Path", "System.AreaPath", "TreePath")
FlagField == Field("Flag", "Custom.Flag", "Boolean")
\* fields that collide with the link-type field's keys after lowercasing
SameNameField == Field("Link Type", "Custom.LinkType", "Integer")
SameRefField == Field("Links", "system.links.linktype", "Boolean")

(***************************************************************************)
(* Symbols of the parse tree (compiler/wiqlSymbols).  A Value wraps one    *)
(* symbol: a literal token, a Variable or a Field; `class` is the symbol's *)
(* class and `text` the token or identifier text.                          *)
(***************************************************************************)
Symbol(class, text) == [class |-> class, text |-> text]

NoValue == Symbol(null, "")
LiteralClasses == {"Number", "String", "True", "False"}
Literals == {Symbol("Number", "1"), Symbol("String", "abc"),
             Symbol("True", "true"), Symbol("False", "false")}
Variables == {Symbol("Variable", "@Me"), Symbol("Variable", "@Today"),
              Symbol("Variable", "@foo")}
FieldValues == {Symbol("Field", t) : t \in {"Title", "Effort", "Flag", "Unknown"}}
Values == Literals \cup Variables \cup FieldValues

\* classes of the token a ConditionalOperator carries
OperatorClasses == {"Equals", "NotEquals", "GreaterThan", "LessThan", "GreaterOrEq",
                    "LessOrEq", "InGroup", "Ever", "Contains", "ContainsWords", "Under"}

\* a ConditionalExpression or LinkCondition node; valueList is the chain
\* value / restOfList as a sequence, <<>> when the node has no list
Condition(kind, field, op, value, inOp, list) ==
    [kind |-> kind, field |-> field, conditionalOperator |-> op, value |-> value,
     inOperator |-> inOp, valueList |-> list]

\* the place of a token in the parse result: the condition's index, the
\* part of the condition, and the index in the value list (0 outside one)
Token(cond, part, item) == [cond |-> cond, part |-> part, item |-> item]

(***************************************************************************)
(* Collaborators that live outside the two source files.                   *)
(***************************************************************************)
\* errorDecorations.toDecoration: a diagnostic at a token
toDecoration(token, message) == [token |-> token, message |-> message]

\* a template-literal message: its fixed text and the interpolated parts
Message(text, args) == [text |-> text, args |-> args]

\* wiqlSymbols.getSymbolName
getSymbolName(class) ==
    CASE class = "Number" -> "NUMBER"
      [] class = "String" -> "STRING"
      [] class = "Ever" -> "Was Ever"
      [] OTHER -> class

\* wiqlDefinition.definedVariables, keyed by lowercased name; its keys in
\* insertion order
VariableNames == <<"@me", "@today">>
definedVariables(name) ==
    CASE name = "@me" -> "String"
      [] name = "@today" -> "DateTime"
      [] OTHER -> null

\* findSymbol.symbolsOfType: the indices of the nodes of one class, in order
symbolsOfType(pr, kind) ==
    SelectSeq([i \in 1..Len(pr) |-> i], LAMBDA i : pr[i].kind = kind)

RECURSIVE mapNames(_)
mapNames(ops) ==
    IF ops = <<>> THEN <<>> ELSE <<getSymbolName(Head(ops))>> \o mapNames(Tail(ops))

\* validOps.filter((op) => token instanceof op).length === 0
noneInstanceOf(validOps, class) == \A k \in 1..Len(validOps) : validOps[k] # class

(***************************************************************************)
(* TypeErrorChecker                                                        *)
(***************************************************************************)
checkComparisonOperator(lookup, i, cond, rhsType) ==
    LET operatorToken == Token(i, "conditionToken", 0)
        validOps == lookup[toLocaleLowerCase(cond.field)][rhsType]
    IN IF Len(validOps) = 0
       THEN <<toDecoration(operatorToken,
                Message("There is no valid operation for", <<cond.field, rhsType>>))>>
       ELSE IF noneInstanceOf(validOps, cond.conditionalOperator)
       THEN <<toDecoration(operatorToken,
                Message("Valid comparisons are", mapNames(validOps)))>>
       ELSE <<>>

checkAllowsGroup(lookup, i, cond) ==
    LET comp == Token(i, "inOperator", 0)
        validOps == lookup[toLocaleLowerCase(cond.field)]["group"]
    IN IF Len(validOps) = 0
       THEN <<toDecoration(comp,
                Message("does not support group comparisons", <<cond.field>>))>>
       ELSE IF noneInstanceOf(validOps, cond.inOperator)
       THEN <<toDecoration(comp, Message("Valid comparisons are", mapNames(validOps)))>>
       ELSE <<>>

\* mapType with the Double case missing
mapTypeIntegerOnly(type) ==
    IF type \in {"Integer"} THEN "Number" ELSE "String"

mapType(type) ==
    IF type \in {"Integer", "Double"} THEN "Number" ELSE "String"

\* a call's result: the decorations it returned, or thrown = TRUE
Returned(errors) == [thrown |-> FALSE, errors |-> errors]
Thrown == [thrown |-> TRUE, errors |-> <<>>]

checkRhsValue(token, value, expectedType) ==
    LET symbolType == mapType(expectedType)
        error == toDecoration(token,
                    Message("Expected value of type", <<getSymbolName(symbolType)>>))
    IN IF value.class = "Variable"
       THEN LET varType == mapType(definedVariables(toLocaleLowerCase(value.text)))
            IN Returned(IF varType = symbolType THEN <<>> ELSE <<error>>)
       ELSE IF expectedType \in {"String", "Integer", "DateTime", "PlainText", "Html",
                                 "TreePath", "History", "Double", "Guid"}
       THEN Returned(IF value.class = symbolType THEN <<>> ELSE <<error>>)
       ELSE IF expectedType = "Boolean"
       THEN Returned(IF value.class = "True" \/ value.class = "False" THEN <<>>
                     ELSE <<toDecoration(token,
                              Message("Expected value of type", <<"BOOLEAN">>))>>)
       ELSE Thrown

\* a call that throws ends the caller too
andThen(first, second) ==
    IF first.thrown \/ second.thrown THEN Thrown
    ELSE Returned(first.errors \o second.errors)

\* the loop body of checkRhsGroup for the k-th element of the list
checkListValue(i, k, value, expectedType) ==
    IF value.class = "Field"
    THEN Returned(<<toDecoration(Token(i, "listValue", k),
                      Message("Values in list must be literals", <<>>))>>)
    ELSE checkRhsValue(Token(i, "listValue", k), value, expectedType)

RECURSIVE checkRhsGroupFrom(_, _, _, _)
checkRhsGroupFrom(i, k, valueList, expectedType) ==
    IF k > Len(valueList) THEN Returned(<<>>)
    ELSE andThen(checkListValue(i, k, valueList[k], expectedType),
                 checkRhsGroupFrom(i, k + 1, valueList, expectedType))

checkRhsGroup(i, valueList, expectedType) ==
    checkRhsGroupFrom(i, 1, valueList, expectedType)

checkRhsField(lookup, i, targetField, expectedType) ==
    IF /\ toLocaleLowerCase(targetField.text) \in DOMAIN lookup
       /\ lookup[toLocaleLowerCase(targetField.text)].fieldType # expectedType
    THEN <<toDecoration(Token(i, "valueIdentifier", 0),
              Message("Expected field of type", <<expectedType>>))>>
    ELSE <<>>

\* getRhsType that never answers "field"
getRhsTypeAlwaysLiteral(value) == "literal"

getRhsType(value) ==
    IF value.class # null /\ value.class = "Field" THEN "field" ELSE "literal"

\* the scalar branch without the `continue` after an operator error
checkScalarNoContinue(lookup, i, cond, type) ==
    LET rhsType == getRhsType(cond.value)
        compErrors == checkComparisonOperator(lookup, i, cond, rhsType)
    IN andThen(Returned(compErrors),
               IF cond.value.class = "Field"
               THEN Returned(checkRhsField(lookup, i, cond.value, type))
               ELSE checkRhsValue(Token(i, "value", 0), cond.value, type))

\* the scalar branch of the loop body of check
checkScalar(lookup, i, cond, type) ==
    LET rhsType == getRhsType(cond.value)
        compErrors == checkComparisonOperator(lookup, i, cond, rhsType)
    IN IF Len(compErrors) > 0 THEN Returned(compErrors)
       ELSE IF cond.value.class = "Field"
       THEN Returned(checkRhsField(lookup, i, cond.value, type))
       ELSE checkRhsValue(Token(i, "value", 0), cond.value, type)

\* the group branch of the loop body of check
checkGroup(lookup, i, cond, type) ==
    andThen(checkRhsGroup(i, cond.valueList, type),
            Returned(checkAllowsGroup(lookup, i, cond)))

\* the loop body of check for the condition at index i of the parse result
checkCondition(lookup, i, cond) ==
    IF cond.field = null \/ toLocaleLowerCase(cond.field) \notin DOMAIN lookup
    THEN Returned(<<>>)
    ELSE LET type == lookup[toLocaleLowerCase(cond.field)].fieldType
         IN IF cond.conditionalOperator # null /\ cond.value.class # null
            THEN checkScalar(lookup, i, cond, type)
            ELSE IF cond.valueList # <<>> /\ cond.inOperator # null
            THEN checkGroup(lookup, i, cond, type)
            ELSE Returned(<<>>)

allConditions(pr) ==
    symbolsOfType(pr, "ConditionalExpression") \o symbolsOfType(pr, "LinkCondition")

RECURSIVE checkFrom(_, _, _, _)
checkFrom(lookup, pr, order, n) ==
    IF n > Len(order) THEN Returned(<<>>)
    ELSE andThen(checkCondition(lookup, order[n], pr[order[n]]),
                 checkFrom(lookup, pr, order, n + 1))

\* what the promise check returns settles to
checkResult(lookup, pr) == checkFrom(lookup, pr, allConditions(pr), 1)

(***************************************************************************)
(* Variable completion (completion/variableCompletion).  A label is the    *)
(* sequence of its characters.                                             *)
(***************************************************************************)
Chars(name) ==
    CASE name = "@me" -> <<"@", "m", "e">>
      [] name = "@today" -> <<"@", "t", "o", "d", "a", "y">>

RECURSIVE standardSuggestionsFrom(_, _)
standardSuggestionsFrom(type, n) ==
    IF n > Len(VariableNames) THEN <<>>
    ELSE (IF type = null \/ definedVariables(VariableNames[n]) = type
          THEN <<[label |-> Chars(VariableNames[n]), kind |-> "Variable"]>>
          ELSE <<>>) \o standardSuggestionsFrom(type, n + 1)

getStandardVariableSuggestions(type) == standardSuggestionsFrom(type, 1)

\* the type filter both callers pass: ctx.isInCondition ? ctx.fieldType : null
typeFilter(c) == IF c.isInCondition THEN c.fieldType ELSE null

\* the condition without the test of the previous token
variableExpectedAnywhere(c) == "Variable" \in c.expectedTokens

\* the condition of includeVariables' if statement
variableExpected(c) ==
    /\ "Variable" \in c.expectedTokens
    /\ ~(c.prevToken.class = "Group")

\* String.prototype.replace(pattern, replacement) with string arguments:
\* the first occurrence of the one-character pattern is replaced
RECURSIVE replace(_, _, _)
replace(str, pattern, replacement) ==
    IF str = <<>> THEN <<>>
    ELSE IF Head(str) = pattern THEN replacement \o Tail(str)
    ELSE <<Head(str)>> \o replace(Tail(str), pattern, replacement)

\* the condition with the cursor column compared as it stands
atEndOfVariableNoOffset(c, pos) ==
    /\ c.prevToken.class = "Variable"
    /\ pos = c.prevToken.endColumn

\* the condition of getCurrentVariableSuggestions' if statement
atEndOfVariable(c, pos) ==
    /\ c.prevToken.class = "Variable"
    /\ pos - 1 = c.prevToken.endColumn

\* the callback of the map in getCurrentVariableSuggestions
toCurrentSuggestion(s) ==
    [label |-> s.label, kind |-> "Variable", insertText |-> replace(s.label, "@", <<>>)]

NoSuggestion == [isNull |-> TRUE, items |-> <<>>]
SuggestionList(items) == [isNull |-> FALSE, items |-> items]

currentVariableSuggestions(c, pos) ==
    IF atEndOfVariable(c, pos)
    THEN LET std == getStandardVariableSuggestions(typeFilter(c))
         IN SuggestionList([k \in 1..Len(std) |-> toCurrentSuggestion(std[k])])
    ELSE NoSuggestion

(***************************************************************************)
(* Inputs.                                                                 *)
(***************************************************************************)
SeqsUpTo(S, n) == UNION {[1..k -> S] : k \in 0..n}
SeqsFromTo(S, m, n) == UNION {[1..k -> S] : k \in m..n}

\* field metadata lists handed to the lookup builder
LookupFields == {LinkTypeField, SameNameField, SameRefField, TitleField, FlagField,
                 EffortField}
FieldLists == SeqsUpTo(LookupFields, MaxFields)

\* field metadata snapshots the checker runs against
AllFields == <<TitleField, EffortField, IdField, CreatedField, TokenField,
               DescriptionField, NotesField, HistoryField, AreaField, FlagField,
               LinkTypeField>>
Snapshots == {AllFields, AllFields \o <<SameNameField>>, <<SameRefField>> \o AllFields}

\* identifier texts of the fields conditions name
ConditionFields == {null, "Unknown", "Title", "EFFORT", "System.Id", "Created Date",
                    "Custom.Token", "Description", "Notes", "System.History",
                    "Area Path", "Flag", "System.Links.LinkType", "Link Type"}

Scalar(kind, field, op, value) == Condition(kind, field, op, value, null, <<>>)
Group(kind, field, list) == Condition(kind, field, null, NoValue, "In", list)

ScalarConditions ==
    {Scalar("ConditionalExpression", f, op, v) :
        f \in ConditionFields, op \in OperatorClasses, v \in Values}
IncompleteConditions ==
    {Scalar("ConditionalExpression", f, op, NoValue) :
        f \in {"Title", "Flag"}, op \in {null, "Equals", "Contains"}}
GroupConditions ==
    {Group("ConditionalExpression", f, l) :
        f \in ConditionFields, l \in SeqsFromTo(Values, 1, MaxListLen)}

\* conditions of the parse results that hold several conditions
SeveralConditions ==
    {Scalar("ConditionalExpression", "EFFORT", "Equals", Symbol("String", "abc")),
     Scalar("ConditionalExpression", "Title", "Equals", Symbol("String", "abc")),
     Scalar("ConditionalExpression", "Flag", "Contains", Symbol("Field", "Title")),
     Scalar("ConditionalExpression", "System.Id", "GreaterThan", Symbol("Field", "Title")),
     Scalar("ConditionalExpression", "Unknown", "Equals", Symbol("Number", "1")),
     Group("ConditionalExpression", "Flag",
           <<Symbol("String", "abc"), Symbol("Field", "Title")>>),
     Group("ConditionalExpression", "Title",
           <<Symbol("String", "abc"), Symbol("Number", "1")>>),
     Scalar("LinkCondition", "System.Links.LinkType", "Equals", Symbol("String", "abc")),
     Scalar("LinkCondition", "System.Links.LinkType", "Contains", Symbol("Number", "1")),
     Scalar("LinkCondition", "Link Type", "Equals", Symbol("Field", "Title")),
     Group("LinkCondition", "System.Links.LinkType", <<Symbol("Number", "1")>>)}

ParseResults ==
    {<<c>> : c \in ScalarConditions \cup IncompleteConditions \cup GroupConditions}
    \cup SeqsFromTo(SeveralConditions, 1, MaxConditions)

\* completion contexts
PrevTokens ==
    {[class |-> null, endColumn |-> 0]}
    \cup {[class |-> c, endColumn |-> e] :
            c \in {"Variable", "Group", "Field"}, e \in 0..MaxColumn}
Contexts ==
    [expectedTokens : {{}, {"Variable"}, {"Field"}, {"Variable", "Field"}},
     prevToken : PrevTokens,
     isInCondition : BOOLEAN,
     fieldType : MappedTypes \cup {null}]
NoContext ==
    [expectedTokens |-> {}, prevToken |-> [class |-> null, endColumn |-> 0],
     isInCondition |-> FALSE, fieldType |-> null]

\* a suggestion another completion source has already put in the list
FieldSuggestion == [label |-> <<"I", "D">>, kind |-> "Field"]

(***************************************************************************)
(* The type error checker: one pass of check over a parse result.          *)
(***************************************************************************)
Init ==
    /\ fields \in Snapshots
    /\ cached = FALSE
    /\ fieldLookup = <<>>
    /\ parseResult \in ParseResults
    /\ outcome = Returned(<<>>)
    /\ ctx = NoContext
    /\ position = 1
    /\ suggestions = <<>>
    /\ before = <<>>
    /\ rhsValue = NoValue
    /\ rhsExpected = null
    /\ called = "none"

\* CachedValue.getValue: the cached lookup, built on first use
cachedLookup == IF cached THEN fieldLookup ELSE getFieldComparisonLookup(fields)

check ==
    /\ cached' = TRUE
    /\ fieldLookup' = cachedLookup
    /\ outcome' = checkResult(cachedLookup, parseResult)
    /\ called' = "check"
    /\ UNCHANGED <<fields, parseResult, ctx, position, suggestions, before,
                   rhsValue, rhsExpected>>

Next == check

Spec == Init /\ [][Next]_vars

(***************************************************************************)
(* The lookup builder on its own.                                          *)
(***************************************************************************)
InitLookup ==
    /\ fields \in FieldLists
    /\ cached = FALSE
    /\ fieldLookup = <<>>
    /\ parseResult = <<>>
    /\ outcome = Returned(<<>>)
    /\ ctx = NoContext
    /\ position = 1
    /\ suggestions = <<>>
    /\ before = <<>>
    /\ rhsValue = NoValue
    /\ rhsExpected = null
    /\ called = "none"

getValue ==
    /\ cached' = TRUE
    /\ fieldLookup' = cachedLookup
    /\ called' = "getValue"
    /\ UNCHANGED <<fields, parseResult, outcome, ctx, position, suggestions, before,
                   rhsValue, rhsExpected>>

NextLookup == getValue

SpecLookup == InitLookup /\ [][NextLookup]_vars

(***************************************************************************)
(* The variable completion filter.                                         *)
(***************************************************************************)
InitCompletion ==
    /\ fields = <<>>
    /\ cached = FALSE
    /\ fieldLookup = <<>>
    /\ parseResult = <<>>
    /\ outcome = NoSuggestion
    /\ ctx \in Contexts
    /\ position \in 1..(MaxColumn + 1)
    /\ suggestions \in SeqsUpTo({FieldSuggestion}, MaxSuggestions)
    /\ before = suggestions
    /\ rhsValue = NoValue
    /\ rhsExpected = null
    /\ called = "none"

includeVariables ==
    /\ Len(suggestions) <= MaxSuggestions
    /\ before' = suggestions
    /\ suggestions' = IF variableExpected(ctx)
                      THEN suggestions \o getStandardVariableSuggestions(typeFilter(ctx))
                      ELSE suggestions
    /\ called' = "includeVariables"
    /\ UNCHANGED <<fields, cached, fieldLookup, parseResult, outcome, ctx, position,
                   rhsValue, rhsExpected>>

getCurrentVariableSuggestions ==
    /\ outcome' = currentVariableSuggestions(ctx, position)
    /\ called' = "getCurrentVariableSuggestions"
    /\ UNCHANGED <<fields, cached, fieldLookup, parseResult, ctx, position,
                   suggestions, before, rhsValue, rhsExpected>>

NextCompletion == includeVariables \/ getCurrentVariableSuggestions

SpecCompletion == InitCompletion /\ [][NextCompletion]_vars

(***************************************************************************)
(* checkRhsValue on its own, over every FieldType value.                   *)
(***************************************************************************)
InitRhsValue ==
    /\ fields = <<>>
    /\ cached = FALSE
    /\ fieldLookup = <<>>
    /\ parseResult = <<>>
    /\ outcome = Returned(<<>>)
    /\ ctx = NoContext
    /\ position = 1
    /\ suggestions = <<>>
    /\ before = <<>>
    /\ rhsValue \in Literals \cup Variables
    /\ rhsExpected \in FieldTypes
    /\ called = "none"

callCheckRhsValue ==
    /\ outcome' = checkRhsValue(Token(1, "value", 0), rhsValue, rhsExpected)
    /\ called' = "checkRhsValue"
    /\ UNCHANGED <<fields, cached, fieldLookup, parseResult, ctx, position,
                   suggestions, before, rhsValue, rhsExpected>>

NextRhsValue == callCheckRhsValue

SpecRhsValue == InitRhsValue /\ [][NextRhsValue]_vars

(***************************************************************************)
(* Properties of the type error checker (specification Spec).              *)
(***************************************************************************)
Checked == called = "check" /\ ~outcome.thrown
Conditions == 1..Len(parseResult)

\* the diagnostics of one pass that lie in condition i, in the order returned
DiagsOf(i) == SelectSeq(outcome.errors, LAMBDA d : d.token.cond = i)

Known(i) ==
    /\ parseResult[i].field # null
    /\ toLocaleLowerCase(parseResult[i].field) \in DOMAIN fieldLookup
Entry(i) == fieldLookup[toLocaleLowerCase(parseResult[i].field)]
IsScalar(i) ==
    parseResult[i].conditionalOperator # null /\ parseResult[i].value.class # null
IsGroupForm(i) ==
    ~IsScalar(i) /\ parseResult[i].valueList # <<>> /\ parseResult[i].inOperator # null
RhsKind(i) == IF parseResult[i].value.class = "Field" THEN "field" ELSE "literal"
AllowedOps(i) == {Entry(i)[RhsKind(i)][k] : k \in 1..Len(Entry(i)[RhsKind(i)])}
OperatorCheckFails(i) ==
    AllowedOps(i) = {} \/ parseResult[i].conditionalOperator \notin AllowedOps(i)
Diagnostic(i, part, item, text, args) ==
    [token |-> [cond |-> i, part |-> part, item |-> item],
     message |-> [text |-> text, args |-> args]]

\* C1: a scalar condition on a known field whose operator check fails gets
\* exactly one diagnostic, at the operator, and no diagnostic for its
\* right-hand side, whatever the right-hand side is.
C1_OperatorFailureShortCircuits ==
    called = "check" =>
        /\ ~outcome.thrown
        /\ \A i \in Conditions :
            (Known(i) /\ IsScalar(i) /\ OperatorCheckFails(i)) =>
                /\ Len(DiagsOf(i)) = 1
                /\ DiagsOf(i)[1].token = [cond |-> i, part |-> "conditionToken", item |-> 0]
                /\ DiagsOf(i)[1].message.text \in
                      {"There is no valid operation for", "Valid comparisons are"}

\* C1 witness: the operator check failed on a condition whose right-hand
\* side is itself of the wrong type (a string literal against an Integer
\* field), and the pass returned the operator diagnostic alone.
C1_Witness ==
    /\ Checked
    /\ \E i \in Conditions :
          /\ Known(i) /\ IsScalar(i) /\ OperatorCheckFails(i)
          /\ Entry(i).fieldType = "Integer"
          /\ parseResult[i].value.class = "String"
          /\ Len(DiagsOf(i)) = 1

\* the kind of literal a declared type expects
ExpectedKind(type) ==
    IF type \in {"Integer", "Double"} THEN "NUMBER"
    ELSE IF type = "Boolean" THEN "BOOLEAN" ELSE "STRING"
KindMatches(kind, class) ==
    \/ kind = "NUMBER" /\ class = "Number"
    \/ kind = "BOOLEAN" /\ class \in {"True", "False"}
    \/ kind = "STRING" /\ class = "String"

\* C2: a scalar condition on a known field whose operator check passed and
\* whose right-hand side is a literal gets no diagnostic when the literal's
\* kind matches the kind mapped from the declared type, and otherwise
\* exactly one diagnostic at the literal, "Expected value of type" NUMBER,
\* STRING or (for Boolean fields) BOOLEAN.
C2_LiteralTypeCheck ==
    called = "check" =>
        \A i \in Conditions :
            (/\ Known(i) /\ IsScalar(i) /\ ~OperatorCheckFails(i)
             /\ parseResult[i].value.class \in LiteralClasses) =>
                LET kind == ExpectedKind(Entry(i).fieldType)
                IN IF KindMatches(kind, parseResult[i].value.class)
                   THEN DiagsOf(i) = <<>>
                   ELSE DiagsOf(i) =
                          <<Diagnostic(i, "value", 0, "Expected value of type", <<kind>>)>>

\* C2 witness: [Effort] = "abc" on the Double field Effort was checked and
\* produced the single NUMBER diagnostic.
C2_Witness ==
    /\ Checked
    /\ parseResult = <<Scalar("ConditionalExpression", "EFFORT", "Equals",
                              Symbol("String", "abc"))>>
    /\ Entry(1).fieldType = "Double"
    /\ outcome.errors =
          <<Diagnostic(1, "value", 0, "Expected value of type", <<"NUMBER">>)>>

NumericLike == {"Integer", "Double", "DateTime", "Guid"}
ContainsAgainstField(i) ==
    /\ Known(i) /\ IsScalar(i)
    /\ Entry(i).fieldType \in NumericLike
    /\ parseResult[i].value.class = "Field"
    /\ parseResult[i].conditionalOperator = "Contains"

\* C3 as stated: an Integer, Double, DateTime or Guid field compared with
\* Contains to a field reference gets the "no valid operation" diagnostic
\* and not the "valid comparisons are" one.
C3_Original ==
    called = "check" =>
        \A i \in Conditions :
            ContainsAgainstField(i) =>
                /\ \E k \in 1..Len(DiagsOf(i)) :
                      DiagsOf(i)[k].message.text = "There is no valid operation for"
                /\ \A k \in 1..Len(DiagsOf(i)) :
                      DiagsOf(i)[k].message.text # "Valid comparisons are"

\* C3 amended: such a condition gets exactly one diagnostic, at the
\* operator, the "Valid comparisons are" message listing the six field
\* comparisons Equals, NotEquals, GreaterThan, LessThan, GreaterOrEq,
\* LessOrEq.
C3_ContainsAgainstFieldListsComparisons ==
    called = "check" =>
        \A i \in Conditions :
            ContainsAgainstField(i) =>
                DiagsOf(i) =
                    <<Diagnostic(i, "conditionToken", 0, "Valid comparisons are",
                        <<"Equals", "NotEquals", "GreaterThan", "LessThan",
                          "GreaterOrEq", "LessOrEq">>)>>

\* C3 witness: a DateTime field was compared with Contains to a field.
C3_Witness ==
    /\ Checked
    /\ \E i \in Conditions :
          /\ ContainsAgainstField(i)
          /\ Entry(i).fieldType = "DateTime"
          /\ Len(DiagsOf(i)) = 1

BooleanContains(i) ==
    /\ Known(i) /\ IsScalar(i)
    /\ Entry(i).fieldType = "Boolean"
    /\ parseResult[i].conditionalOperator = "Contains"

\* C4 as stated: a Boolean field with operator Contains gets, for every
\* kind of right-hand side, exactly one diagnostic whose list of valid
\* operators is Equals, NotEquals, Was Ever.
C4_Original ==
    called = "check" =>
        \A i \in Conditions :
            BooleanContains(i) =>
                /\ Len(DiagsOf(i)) = 1
                /\ DiagsOf(i)[1].message.args = <<"Equals", "NotEquals", "Was Ever">>

\* C4 amended: a Boolean field with operator Contains gets exactly one
\* diagnostic, at the operator; its list of valid operators is Equals,
\* NotEquals, Was Ever when the right-hand side is a literal or a variable
\* and Equals, NotEquals when it is a field reference.
C4_BooleanContainsByRhsKind ==
    called = "check" =>
        \A i \in Conditions :
            BooleanContains(i) =>
                DiagsOf(i) =
                    <<Diagnostic(i, "conditionToken", 0, "Valid comparisons are",
                        IF parseResult[i].value.class = "Field"
                        THEN <<"Equals", "NotEquals">>
                        ELSE <<"Equals", "NotEquals", "Was Ever">>)>>

\* C4 witness: a Boolean field was compared with Contains to a field
\* reference and the list cited is Equals, NotEquals.
C4_Witness ==
    /\ Checked
    /\ \E i \in Conditions :
          /\ BooleanContains(i)
          /\ parseResult[i].value.class = "Field"
          /\ Len(DiagsOf(i)) = 1
          /\ DiagsOf(i)[1].message.args = <<"Equals", "NotEquals">>

\* the fields of the snapshot that write the key of condition i's field
WritersOf(i) ==
    {k \in 1..Len(fields) :
        toLocaleLowerCase(parseResult[i].field) \in
            {toLocaleLowerCase(fields[k].name), toLocaleLowerCase(fields[k].referenceName)}}
\* condition i names the link-type field: the last field written under its
\* key carries the reference name System.Links.LinkType
OnLinkType(i) ==
    /\ parseResult[i].field # null
    /\ WritersOf(i) # {}
    /\ \E k \in WritersOf(i) :
          /\ \A j \in WritersOf(i) : j <= k
          /\ fields[k].referenceName = "System.Links.LinkType"
OperatorDiags(i) ==
    SelectSeq(DiagsOf(i), LAMBDA d : d.token.part \in {"conditionToken", "inOperator"})

\* C5 as stated: whenever a condition on the link-type field is rejected at
\* the operator-legality step, in any form and with any operator, the
\* diagnostic is the "no valid operation" message.
C5_Original ==
    called = "check" =>
        \A i \in Conditions :
            OnLinkType(i) =>
                \A k \in 1..Len(OperatorDiags(i)) :
                    OperatorDiags(i)[k].message.text = "There is no valid operation for"

\* C5 amended: a condition on the link-type field is rejected at the
\* operator-legality step with "There is no valid operation for <field>
\* and field" when its right-hand side is a field reference (any operator),
\* with "<field> does not support group comparisons" when it has the group
\* form, and with "Valid comparisons are Equals, NotEquals" when its
\* right-hand side is a literal or a variable and its operator is neither
\* Equals nor NotEquals; with Equals or NotEquals against a literal or a
\* variable it is not rejected at that step.
C5_LinkTypeRejections ==
    called = "check" =>
        \A i \in Conditions :
            OnLinkType(i) =>
                LET c == parseResult[i]
                IN /\ (IsScalar(i) /\ c.value.class = "Field") =>
                        DiagsOf(i) =
                            <<Diagnostic(i, "conditionToken", 0,
                                "There is no valid operation for", <<c.field, "field">>)>>
                   /\ (IsScalar(i) /\ c.value.class # "Field"
                       /\ c.conditionalOperator \notin {"Equals", "NotEquals"}) =>
                        DiagsOf(i) =
                            <<Diagnostic(i, "conditionToken", 0,
                                "Valid comparisons are", <<"Equals", "NotEquals">>)>>
                   /\ (IsScalar(i) /\ c.value.class # "Field"
                       /\ c.conditionalOperator \in {"Equals", "NotEquals"}) =>
                        OperatorDiags(i) = <<>>
                   /\ IsGroupForm(i) =>
                        OperatorDiags(i) =
                            <<Diagnostic(i, "inOperator", 0,
                                "does not support group comparisons", <<c.field>>)>>

\* C5 witness: a link condition [System.Links.LinkType] Contains <literal>
\* was rejected at the operator.
C5_Witness ==
    /\ Checked
    /\ \E i \in Conditions :
          /\ OnLinkType(i) /\ IsScalar(i)
          /\ parseResult[i].kind = "LinkCondition"
          /\ parseResult[i].conditionalOperator = "Contains"
          /\ parseResult[i].value.class = "Number"
          /\ Len(OperatorDiags(i)) = 1

\* the places of the diagnostics at a token part of condition i
PlacesOf(i, part) ==
    {p \in 1..Len(outcome.errors) :
        outcome.errors[p].token.cond = i /\ outcome.errors[p].token.part = part}

\* C9: the diagnostics of a pass are in traversal order: the diagnostic at
\* the group operator of a group-form condition comes before every
\* diagnostic of that condition's list elements, the list-element
\* diagnostics follow list order, and the diagnostics of different
\* conditions are not interleaved.
C9_TraversalOrder ==
    called = "check" =>
        /\ \A i \in Conditions :
              \A p \in PlacesOf(i, "inOperator"), q \in PlacesOf(i, "listValue") : p < q
        /\ \A i \in Conditions :
              \A p, q \in PlacesOf(i, "listValue") :
                  p < q => outcome.errors[p].token.item < outcome.errors[q].token.item
        /\ \A p, q, r \in 1..Len(outcome.errors) :
              (p < q /\ q < r
               /\ outcome.errors[p].token.cond = outcome.errors[r].token.cond)
                  => outcome.errors[q].token.cond = outcome.errors[p].token.cond

(***************************************************************************)
(* Properties of the lookup builder (specification SpecLookup).            *)
(***************************************************************************)
LinkTypePlaces == {k \in 1..Len(fields) : fields[k].referenceName = "System.Links.LinkType"}
KeysOf(field) == {toLocaleLowerCase(field.name), toLocaleLowerCase(field.referenceName)}
IsLinkTypeEntry(entry) ==
    /\ entry.fieldType = "String"
    /\ entry.literal = <<"Equals", "NotEquals">>
    /\ entry.field = <<>>
    /\ entry.group = <<>>
MapsToLinkTypeEntry(k) ==
    \A key \in KeysOf(fields[k]) :
        key \in DOMAIN fieldLookup /\ IsLinkTypeEntry(fieldLookup[key])
\* a field after place k that is not the link-type field and shares a key
OverwrittenAfter(k) ==
    \E j \in (k + 1)..Len(fields) :
        /\ fields[j].referenceName # "System.Links.LinkType"
        /\ KeysOf(fields[j]) \cap KeysOf(fields[k]) # {}

\* C6 as stated: for every field list that contains the link-type field,
\* together with any other fields (colliding ones included), the lookup
\* maps both of its lowercased names to the entry String / {Equals,
\* NotEquals} / {} / {}.
C6_Original ==
    called = "getValue" => \A k \in LinkTypePlaces : MapsToLinkTypeEntry(k)

\* C6 amended: the lookup maps both lowercased names of the link-type field
\* to that entry provided no field later in the list, other than the
\* link-type field itself, has a lowercased display or reference name equal
\* to one of them (a later colliding field overwrites the key).
C6_LinkTypeEntryUnlessOverwritten ==
    called = "getValue" =>
        \A k \in LinkTypePlaces : ~OverwrittenAfter(k) => MapsToLinkTypeEntry(k)

\* C6 witness: the lookup was built from a list in which a field with the
\* same display name precedes the link-type field, which is not last.
C6_Witness ==
    /\ called = "getValue"
    /\ \E k \in LinkTypePlaces :
          /\ k > 1 /\ k < Len(fields)
          /\ fields[k - 1] = SameNameField
          /\ ~OverwrittenAfter(k)
          /\ MapsToLinkTypeEntry(k)

(***************************************************************************)
(* Properties of the completion filter (specification SpecCompletion).     *)
(***************************************************************************)
\* the suggestions the filter lists for a context: one per declared
\* variable that passes the type filter, in table order
Filter == IF ctx.isInCondition THEN ctx.fieldType ELSE null
PassingNames ==
    SelectSeq(VariableNames, LAMBDA n : Filter = null \/ definedVariables(n) = Filter)
VariableIsExpected == "Variable" \in ctx.expectedTokens /\ ctx.prevToken.class # "Group"

\* C7 as stated: includeVariables changes the suggestion list if and only
\* if the expected tokens contain the variable symbol and the previous
\* token is not a group symbol.
C7_Original ==
    called = "includeVariables" => ((suggestions # before) <=> VariableIsExpected)

\* C7 amended: when the expected tokens contain the variable symbol and the
\* previous token is not a group symbol, includeVariables keeps the entries
\* already in the list in place and appends one suggestion per declared
\* variable passing the type filter (the context's field type inside a
\* condition, none outside or when the field type is null), in table
\* order; otherwise it leaves the list unchanged.  The list therefore
\* changes if and only if, in addition, at least one variable passes the
\* filter.
C7_AppendsFilteredVariables ==
    called = "includeVariables" =>
        /\ VariableIsExpected =>
              /\ Len(suggestions) = Len(before) + Len(PassingNames)
              /\ \A k \in 1..Len(before) : suggestions[k] = before[k]
              /\ \A k \in 1..Len(PassingNames) :
                    suggestions[Len(before) + k] =
                        [label |-> Chars(PassingNames[k]), kind |-> "Variable"]
        /\ ~VariableIsExpected => suggestions = before
        /\ (suggestions # before) <=> (VariableIsExpected /\ PassingNames # <<>>)

\* C7 witness: inside a condition on a DateTime field, one variable was
\* appended behind an entry already in the list.
C7_Witness ==
    /\ called = "includeVariables"
    /\ VariableIsExpected
    /\ ctx.isInCondition /\ ctx.fieldType = "DateTime"
    /\ before = <<FieldSuggestion>>
    /\ Len(suggestions) = 2
    /\ suggestions[2].label = <<"@", "t", "o", "d", "a", "y">>

\* a label without its leading prefix marker
WithoutPrefix(label) == IF label # <<>> /\ Head(label) = "@" THEN Tail(label) ELSE label

\* C8: getCurrentVariableSuggestions returns a list (possibly empty) if and
\* only if the previous token is a variable and the cursor is at that
\* token's end (position.column - 1 = endColumn), and null otherwise; the
\* list has one item per variable passing the type filter, in table order,
\* with the label kept and the insertion text the label without its
\* leading prefix marker.
C8_CurrentVariableSuggestions ==
    called = "getCurrentVariableSuggestions" =>
        /\ (~outcome.isNull) <=>
              (ctx.prevToken.class = "Variable" /\ position - 1 = ctx.prevToken.endColumn)
        /\ outcome.isNull => outcome.items = <<>>
        /\ ~outcome.isNull =>
              /\ Len(outcome.items) = Len(PassingNames)
              /\ \A k \in 1..Len(PassingNames) :
                    /\ outcome.items[k].label = Chars(PassingNames[k])
                    /\ outcome.items[k].insertText = WithoutPrefix(Chars(PassingNames[k]))
                    /\ outcome.items[k].insertText # outcome.items[k].label

\* C8 witness: with the cursor at the end of a variable token and no type
\* filter, both variables were returned, @today with insertion text today.
C8_Witness ==
    /\ called = "getCurrentVariableSuggestions"
    /\ ~outcome.isNull
    /\ ctx.prevToken.class = "Variable"
    /\ Len(outcome.items) = 2
    /\ outcome.items[2].label = <<"@", "t", "o", "d", "a", "y">>
    /\ outcome.items[2].insertText = <<"t", "o", "d", "a", "y">>

(***************************************************************************)
(* Property of checkRhsValue (specification SpecRhsValue).                 *)
(***************************************************************************)
\* C10: applied with an expected FieldType that has no mapping, the value
\* type check raises an error instead of returning a list, for a literal
\* and for a variable reference alike.
C10_UnmappedTypeRaises ==
    (called = "checkRhsValue" /\ rhsExpected \notin MappedTypes) => outcome.thrown

====
